---- MODULE Spec2Model ----
(***************************************************************************)
(* Vehicle allocation service (FastAPI + MongoDB).                         *)
(*                                                                         *)
(* The store is the two collections the handlers of app/routes read and    *)
(* write: allocations and vehicles.  Every handler is one atomic action    *)
(* (requests are executed one after the other); the response the caller    *)
(* sees is kept in resp.  SpecConcurrent alone splits create_allocation    *)
(* at its awaits and interleaves the requests of several clients, kept     *)
(* in inflight.  Time is a discrete clock: a datetime is a                 *)
(* number of instants since the start of day 0, a day has SlotsPerDay      *)
(* instants, slot 0 is datetime.min.time() and slot SlotsPerDay-1 is       *)
(* datetime.max.time().                                                    *)
(***************************************************************************)
EXTENDS Integers, Sequences, FiniteSets, TLC

VARIABLES
    allocations,   \* the allocations collection: a set of documents
    vehicles,      \* the vehicles collection: documents in insertion order
    issued,        \* number of allocation ObjectIds the store has generated
    now,           \* the clock: datetime.now()
    resp,          \* the last request and the response the caller got
    inflight       \* per client, the create request being served concurrently

vars == <<allocations, vehicles, issued, now, resp, inflight>>

(* ------------------------------ bounds --------------------------------- *)

\* instants per calendar day
SlotsPerDay == 2
\* last calendar day a request can name
MaxDay == 1
\* last instant the clock reaches
MaxNow == 2
\* number of allocation identifiers the store can hand out
MaxAllocs == 2
\* number of vehicle identifiers the store can hand out
MaxVehicles == 2
\* number of clients with a create request in flight at the same time
MaxClients == 2

MaxTime == (MaxDay + 1) * SlotsPerDay - 1
Times == 0..MaxTime
Days == 0..MaxDay

(* ------------------------------ values --------------------------------- *)

\* Python None / BSON null
None == "None"

\* AllocationStatus
ALLOCATED == "allocated"
CANCELLED == "cancelled"
AllocationStatus == {ALLOCATED, CANCELLED}

\* the 24-hex-digit strings of the model: identifiers of allocations,
\* vehicles, drivers and employees
AllocIdStr == [i \in 1..(MaxAllocs + 1) |-> <<"a", i>>]
VehicleIdStr == [i \in 1..MaxVehicles |-> <<"v", i>>]
DriverIdStr == {<<"d", i>> : i \in 1..MaxVehicles}
EmployeeIdStr == {<<"e", 1>>}
HexStrings ==
    {AllocIdStr[i] : i \in 1..(MaxAllocs + 1)} \cup
    {VehicleIdStr[i] : i \in 1..MaxVehicles} \cup DriverIdStr \cup EmployeeIdStr
\* a string that is not 24 hex digits
Malformed == <<"zz", 0>>
Strings == HexStrings \cup {Malformed}

\* bson.ObjectId.is_valid(s)
ObjectIdIsValid(s) == s \in HexStrings

\* BSON values are typed: an ObjectId and a string never compare equal
ObjectId(s) == [t |-> "oid", v |-> s]
BsonStr(s) == [t |-> "str", v |-> s]
\* str(oid)
Str(o) == o.v

(* ------------------------------ dates ---------------------------------- *)

\* datetime.date()
DateOf(t) == t \div SlotsPerDay
\* datetime.combine(d, datetime.min.time())
StartOfDay(d) == d * SlotsPerDay
\* datetime.combine(d, datetime.max.time())
EndOfDay(d) == d * SlotsPerDay + (SlotsPerDay - 1)
\* datetime.now().date(), date.today()
Today == DateOf(now)

(* ------------------------------ inputs --------------------------------- *)

Purposes == {"Business trip"}
VehicleRefs == {VehicleIdStr[i] : i \in 1..MaxVehicles}
\* AllocationCreate
AllocationCreate ==
    [employee_id : EmployeeIdStr, vehicle_id : VehicleRefs,
     allocation_date : Times, purpose : {None} \cup Purposes]
\* AllocationUpdate; an unset field and a null field are both None
AllocationUpdate ==
    [purpose : {None} \cup Purposes, status : AllocationStatus \cup {None}]
\* VehicleBase; model and registration_number follow brand
VehicleBase ==
    [brand : {"b", None}, driver_id : DriverIdStr \cup {Malformed}]
\* allocation_id path parameter
AllocIdParams == {AllocIdStr[i] : i \in 1..MaxAllocs} \cup {Malformed}

(* ----------------------------- responses ------------------------------- *)

Response(op, req, code, detail, body) ==
    [op |-> op, req |-> req, code |-> code, detail |-> detail, body |-> body]

\* HTTPException(status_code, detail)
HTTPException(op, req, code, detail) == Response(op, req, code, detail, <<>>)

\* an exception no handler catches: Starlette answers 500
ServerError(op, req) == Response(op, req, 500, "Internal Server Error", <<>>)

\* allocation["id"] = str(allocation.pop("_id"))
WithId(doc) ==
    [id |-> Str(doc._id), employee_id |-> doc.employee_id,
     vehicle_id |-> doc.vehicle_id, allocation_date |-> doc.allocation_date,
     purpose |-> doc.purpose, status |-> doc.status,
     created_at |-> doc.created_at, updated_at |-> doc.updated_at]

\* response_model=AllocationResponse: purpose is a required str
AllocationResponseValid(body) == body.purpose # None

\* what FastAPI sends for a handler that returned body under
\* response_model=AllocationResponse
AllocationResponse(op, req, body) ==
    IF AllocationResponseValid(body)
    THEN Response(op, req, 200, "", body)
    ELSE ServerError(op, req)

(* ------------------------------ store ---------------------------------- *)

\* the clients that send requests at the same time
Clients == 1..MaxClients

\* no request is being served
NoRequests == [c \in Clients |-> [pc |-> "idle"]]

\* allocations.find_one({"_id": oid}): the set of matching documents
FindById(oid) == {a \in allocations : a._id = oid}

\* allocations.find_one({"vehicle_id": v, "allocation_date": d,
\*                       "status": {"$ne": "cancelled"}})
FindExisting(vehicle_id, allocation_date) ==
    {a \in allocations :
        /\ a.vehicle_id = vehicle_id
        /\ a.allocation_date = allocation_date
        /\ a.status # CANCELLED}

(* ------------------------------ actions -------------------------------- *)

\* vehicles.find_one({"driver_id": oid}): the set of matching documents
FindByDriver(oid) == {i \in 1..Len(vehicles) : vehicles[i].driver_id = oid}

\* the vehicles collection after n successful POST /vehicles/ requests made
\* at instant 0, each with its own driver
VehicleStore(n) ==
    [i \in 1..n |->
        [_id |-> ObjectId(VehicleIdStr[i]), brand |-> "b",
         driver_id |-> BsonStr(<<"d", i>>), created_at |-> 0]]

Init ==
    /\ allocations = {}
    /\ vehicles = VehicleStore(MaxVehicles)
    /\ issued = 0
    /\ now = 0
    /\ resp = Response("start", <<>>, 0, "", <<>>)
    /\ inflight = NoRequests

\* the clock advances between requests
Tick ==
    /\ now < MaxNow
    /\ now' = now + 1
    /\ UNCHANGED <<allocations, vehicles, issued, resp, inflight>>

\* a plausible slip: today counts as past
IsPastDate_Inclusive(allocation_date) == DateOf(allocation_date) <= Today

\* allocation.allocation_date.date() < datetime.now().date()
IsPastDate(allocation_date) == DateOf(allocation_date) < Today

\* a plausible slip: created_at takes the allocation date
new_allocation_CreatedOnDate(allocation) ==
    [_id |-> ObjectId(AllocIdStr[issued + 1]),
     employee_id |-> allocation.employee_id,
     vehicle_id |-> allocation.vehicle_id,
     allocation_date |-> allocation.allocation_date,
     purpose |-> allocation.purpose,
     status |-> ALLOCATED,
     created_at |-> allocation.allocation_date,
     updated_at |-> now]

\* allocation.dict() with created_at, updated_at and status, under the
\* _id insert_one generates
new_allocation(allocation) ==
    [_id |-> ObjectId(AllocIdStr[issued + 1]),
     employee_id |-> allocation.employee_id,
     vehicle_id |-> allocation.vehicle_id,
     allocation_date |-> allocation.allocation_date,
     purpose |-> allocation.purpose,
     status |-> ALLOCATED,
     created_at |-> now,
     updated_at |-> now]

\* POST /allocations/
create_allocation(allocation) ==
    IF IsPastDate(allocation.allocation_date)
    THEN /\ resp' = HTTPException("create", allocation, 400,
                        "Cannot create allocation for past dates")
         /\ UNCHANGED <<allocations, vehicles, issued, now, inflight>>
    ELSE IF FindExisting(allocation.vehicle_id, allocation.allocation_date) # {}
    THEN /\ resp' = HTTPException("create", allocation, 401,
                        "Vehicle is already allocated for this date")
         /\ UNCHANGED <<allocations, vehicles, issued, now, inflight>>
    ELSE /\ issued < MaxAllocs
         /\ LET created_allocation == new_allocation(allocation)
            IN  /\ allocations' = allocations \cup {created_allocation}
                /\ issued' = issued + 1
                /\ resp' = AllocationResponse("create", allocation,
                                              WithId(created_allocation))
         /\ UNCHANGED <<vehicles, now, inflight>>

CreateAllocation == \E allocation \in AllocationCreate : create_allocation(allocation)

\* a plausible slip: the window closed on the allocation's day only
UpdateWindowClosed_OnDayOnly(allocation) ==
    DateOf(allocation.allocation_date) = Today

\* the window test of update_allocation: allocation date today or earlier
UpdateWindowClosed(allocation) == DateOf(allocation.allocation_date) <= Today

\* a plausible slip: the clock compared with the end of the allocation's day
DeleteWindowClosed_ByClock(allocation) ==
    now >= EndOfDay(DateOf(allocation.allocation_date))

\* the window test of delete_allocation: allocation instant at or before
\* the last instant of today
DeleteWindowClosed(allocation) == allocation.allocation_date <= EndOfDay(Today)

\* a plausible slip: updated_at refreshed only when a field is supplied
ApplyUpdate_StampIfChanged(allocation, allocation_update) ==
    [allocation EXCEPT
        !.purpose = IF allocation_update.purpose # None
                    THEN allocation_update.purpose ELSE @,
        !.status = IF allocation_update.status # None
                   THEN allocation_update.status ELSE @,
        !.updated_at = IF allocation_update.purpose # None
                          \/ allocation_update.status # None
                       THEN now ELSE @]

\* update_data: the supplied, non-null fields, plus updated_at
ApplyUpdate(allocation, allocation_update) ==
    [allocation EXCEPT
        !.purpose = IF allocation_update.purpose # None
                    THEN allocation_update.purpose ELSE @,
        !.status = IF allocation_update.status # None
                   THEN allocation_update.status ELSE @,
        !.updated_at = now]

\* PUT /allocations/{allocation_id}
update_allocation(allocation_id, allocation_update) ==
    LET req == [id |-> allocation_id, update |-> allocation_update] IN
    /\ UNCHANGED <<vehicles, issued, now, inflight>>
    /\ IF ~ObjectIdIsValid(allocation_id)
       THEN \* ObjectId(allocation_id) raises bson.errors.InvalidId
            /\ resp' = ServerError("update", req)
            /\ UNCHANGED allocations
       ELSE IF FindById(ObjectId(allocation_id)) = {}
       THEN /\ resp' = HTTPException("update", req, 404, "Allocation not found")
            /\ UNCHANGED allocations
       ELSE LET allocation == CHOOSE a \in FindById(ObjectId(allocation_id)) : TRUE IN
            IF UpdateWindowClosed(allocation)
            THEN /\ resp' = HTTPException("update", req, 400,
                                "Cannot update on allocated date and after")
                 /\ UNCHANGED allocations
            ELSE LET updated_allocation == ApplyUpdate(allocation, allocation_update) IN
                 /\ allocations' = (allocations \ {allocation}) \cup {updated_allocation}
                 /\ resp' = AllocationResponse("update", req, WithId(updated_allocation))

UpdateAllocation ==
    \E allocation_id \in AllocIdParams, allocation_update \in AllocationUpdate :
        update_allocation(allocation_id, allocation_update)

\* a plausible slip: delete_one issued before the window test
delete_allocation_DeleteFirst(allocation_id) ==
    LET req == [id |-> allocation_id] IN
    /\ UNCHANGED <<vehicles, issued, now, inflight>>
    /\ IF ~ObjectIdIsValid(allocation_id)
       THEN /\ resp' = ServerError("delete", req)
            /\ UNCHANGED allocations
       ELSE IF FindById(ObjectId(allocation_id)) = {}
       THEN /\ resp' = HTTPException("delete", req, 404, "Allocation not found")
            /\ UNCHANGED allocations
       ELSE LET allocation == CHOOSE a \in FindById(ObjectId(allocation_id)) : TRUE IN
            /\ allocations' = allocations \ {allocation}
            /\ resp' = IF DeleteWindowClosed(allocation)
                       THEN HTTPException("delete", req, 400,
                                "Cannot delete on allocated date and after")
                       ELSE Response("delete", req, 200, "",
                                [message |-> "Allocation deleted successfully"])

\* DELETE /allocations/{allocation_id}
delete_allocation(allocation_id) ==
    LET req == [id |-> allocation_id] IN
    /\ UNCHANGED <<vehicles, issued, now, inflight>>
    /\ IF ~ObjectIdIsValid(allocation_id)
       THEN \* ObjectId(allocation_id) raises bson.errors.InvalidId
            /\ resp' = ServerError("delete", req)
            /\ UNCHANGED allocations
       ELSE IF FindById(ObjectId(allocation_id)) = {}
       THEN /\ resp' = HTTPException("delete", req, 404, "Allocation not found")
            /\ UNCHANGED allocations
       ELSE LET allocation == CHOOSE a \in FindById(ObjectId(allocation_id)) : TRUE IN
            IF DeleteWindowClosed(allocation)
            THEN /\ resp' = HTTPException("delete", req, 400,
                                "Cannot delete on allocated date and after")
                 /\ UNCHANGED allocations
            ELSE /\ allocations' = allocations \ {allocation}
                 /\ resp' = Response("delete", req, 200, "",
                                     [message |-> "Allocation deleted successfully"])

DeleteAllocation == \E allocation_id \in AllocIdParams : delete_allocation(allocation_id)

\* GET /allocations/{allocation_id}
get_allocation(allocation_id) ==
    LET req == [id |-> allocation_id] IN
    /\ UNCHANGED <<allocations, vehicles, issued, now, inflight>>
    /\ IF ~ObjectIdIsValid(allocation_id)
       THEN resp' = HTTPException("get", req, 400, "Invalid allocation ID")
       ELSE IF FindById(ObjectId(allocation_id)) = {}
       THEN resp' = HTTPException("get", req, 404, "Allocation not found")
       ELSE LET allocation == CHOOSE a \in FindById(ObjectId(allocation_id)) : TRUE IN
            resp' = AllocationResponse("get", req, WithId(allocation))

GetAllocation == \E allocation_id \in AllocIdParams : get_allocation(allocation_id)

\* vehicle["id"] = str(vehicle.pop("_id"))
VehicleWithId(doc) ==
    [id |-> Str(doc._id), brand |-> doc.brand,
     driver_id |-> doc.driver_id, created_at |-> doc.created_at]

\* a plausible slip: the stored instant matched against the start of the day
AllocatedOn_Exact(check_date) ==
    {a \in allocations :
        /\ a.allocation_date = StartOfDay(check_date)
        /\ a.status # CANCELLED}

\* the $match stage: allocation_date within the day, status not cancelled
AllocatedOn(check_date) ==
    {a \in allocations :
        /\ a.allocation_date >= StartOfDay(check_date)
        /\ a.allocation_date <= EndOfDay(check_date)
        /\ a.status # CANCELLED}

\* the $group stage: $addToSet of vehicle_id
allocated_vehicle_ids(check_date) == {a.vehicle_id : a \in AllocatedOn(check_date)}

\* a plausible slip: the matching documents counted, not the vehicles
allocated_count_Documents(check_date) == Cardinality(AllocatedOn(check_date))

\* len(allocated_vehicle_ids)
allocated_count(check_date) == Cardinality(allocated_vehicle_ids(check_date))

processed_vehicles == [i \in 1..Len(vehicles) |-> VehicleWithId(vehicles[i])]

IsAvailable(vehicle, check_date) == vehicle.id \notin allocated_vehicle_ids(check_date)

available_vehicles(check_date) ==
    LET Keep(vehicle) == IsAvailable(vehicle, check_date)
    IN  SelectSeq(processed_vehicles, Keep)

\* GET /vehicles/availability/{check_date}
check_vehicle_availability(check_date) ==
    /\ resp' = Response("availability", [date |-> check_date], 200, "",
                   [date |-> check_date,
                    total_vehicles |-> Len(processed_vehicles),
                    allocated_vehicles |-> allocated_count(check_date),
                    available_vehicles |-> Len(available_vehicles(check_date)),
                    vehicles |-> available_vehicles(check_date)])
    /\ UNCHANGED <<allocations, vehicles, issued, now, inflight>>

CheckVehicleAvailability == \E check_date \in Days : check_vehicle_availability(check_date)

\* response_model=VehicleResponse: brand, model and registration_number
\* are required str
VehicleResponseValid(body) == body.brand # None

\* POST /vehicles/
create_vehicle(vehicle) ==
    /\ UNCHANGED <<allocations, issued, now, inflight>>
    /\ IF ~ObjectIdIsValid(vehicle.driver_id)
       THEN \* ObjectId(vehicle.driver_id) raises bson.errors.InvalidId
            /\ resp' = ServerError("create_vehicle", vehicle)
            /\ UNCHANGED vehicles
       ELSE IF FindByDriver(ObjectId(vehicle.driver_id)) # {}
       THEN /\ resp' = HTTPException("create_vehicle", vehicle, 400,
                           "Driver is already assigned to another vehicle")
            /\ UNCHANGED vehicles
       ELSE /\ Len(vehicles) < MaxVehicles
            /\ LET new_vehicle ==
                       [_id |-> ObjectId(VehicleIdStr[Len(vehicles) + 1]),
                        brand |-> vehicle.brand,
                        driver_id |-> BsonStr(vehicle.driver_id),
                        created_at |-> now]
               IN  /\ vehicles' = Append(vehicles, new_vehicle)
                   /\ resp' = IF VehicleResponseValid(VehicleWithId(new_vehicle))
                              THEN Response("create_vehicle", vehicle, 200, "",
                                            VehicleWithId(new_vehicle))
                              ELSE ServerError("create_vehicle", vehicle)

CreateVehicle == \E vehicle \in VehicleBase : create_vehicle(vehicle)

Next ==
    \/ Tick
    \/ CreateAllocation
    \/ UpdateAllocation
    \/ DeleteAllocation
    \/ GetAllocation

Spec == Init /\ [][Next]_vars

\* the vehicle endpoints alone, from an empty vehicles collection
InitVehicles ==
    /\ allocations = {}
    /\ vehicles = <<>>
    /\ issued = 0
    /\ now = 0
    /\ resp = Response("start", <<>>, 0, "", <<>>)
    /\ inflight = NoRequests

NextVehicles ==
    \/ Tick
    \/ CreateVehicle

SpecVehicles == InitVehicles /\ [][NextVehicles]_vars

\* the availability report over a fleet of any size: allocations are
\* created with a purpose, then cancelled, re-activated or deleted
InitAvailability ==
    /\ allocations = {}
    /\ vehicles \in {VehicleStore(n) : n \in 0..MaxVehicles}
    /\ issued = 0
    /\ now = 0
    /\ resp = Response("start", <<>>, 0, "", <<>>)
    /\ inflight = NoRequests

CreateWithPurpose ==
    \E allocation \in AllocationCreate :
        /\ allocation.purpose # None
        /\ create_allocation(allocation)

UpdateStatus ==
    \E i \in 1..MaxAllocs, allocation_update \in AllocationUpdate :
        /\ allocation_update.purpose = None
        /\ allocation_update.status # None
        /\ update_allocation(AllocIdStr[i], allocation_update)

DeleteIssued == \E i \in 1..MaxAllocs : delete_allocation(AllocIdStr[i])

NextAvailability ==
    \/ Tick
    \/ CreateWithPurpose
    \/ UpdateStatus
    \/ DeleteIssued
    \/ CheckVehicleAvailability

SpecAvailability == InitAvailability /\ [][NextAvailability]_vars

(* ------------------------------ queries -------------------------------- *)

\* an optional query parameter: absent, or present with a value
Omitted == <<>>
Given(x) == <<x>>
IsGiven(p) == Len(p) = 1
ValueOf(p) == p[1]

\* skip: int = Query(0, ge=0)
DefaultSkip == 0
\* limit: int = Query(10, ge=1, le=100)
DefaultLimit == 10
MinLimit == 1
MaxLimit == 100

\* a datetime.date and a datetime.datetime are different Python types
DateValue(d) == [t |-> "date", v |-> d]
DateTimeValue(t) == [t |-> "datetime", v |-> t]

\* bson encodes datetime.datetime; datetime.date raises InvalidDocument
BsonEncodable(date_query) ==
    /\ IsGiven(date_query.gte) => ValueOf(date_query.gte).t = "datetime"
    /\ IsGiven(date_query.lte) => ValueOf(date_query.lte).t = "datetime"

\* {"allocation_date": {"$gte": ..., "$lte": ...}} against a stored instant
DateMatches(a, date_query) ==
    /\ IsGiven(date_query.gte) => a.allocation_date >= ValueOf(date_query.gte).v
    /\ IsGiven(date_query.lte) => a.allocation_date <= ValueOf(date_query.lte).v

NoDateQuery == [gte |-> Omitted, lte |-> Omitted]

\* query["allocation_date"] of get_allocations
ListDateQuery(start_date, end_date) ==
    IF IsGiven(start_date) /\ IsGiven(end_date)
    THEN [gte |-> Given(DateValue(ValueOf(start_date))),
          lte |-> Given(DateValue(ValueOf(end_date)))]
    ELSE IF IsGiven(start_date)
    THEN [gte |-> Given(DateTimeValue(StartOfDay(ValueOf(start_date)))),
          lte |-> Omitted]
    ELSE IF IsGiven(end_date)
    THEN [gte |-> Omitted,
          lte |-> Given(DateTimeValue(EndOfDay(ValueOf(end_date))))]
    ELSE NoDateQuery

\* allocations.find(query): the documents the filters of get_allocations match
ListMatching(q) ==
    {a \in allocations :
        /\ IsGiven(q.employee_id) => a.employee_id = ValueOf(q.employee_id)
        /\ IsGiven(q.vehicle_id) => a.vehicle_id = ValueOf(q.vehicle_id)
        /\ IsGiven(q.status) => a.status = ValueOf(q.status)
        /\ DateMatches(a, ListDateQuery(q.start_date, q.end_date))}

\* .sort("allocation_date", -1): every order of the documents in which the
\* allocation dates do not increase (ties in any order)
SortedByDateDesc(docs) ==
    {s \in [1..Cardinality(docs) -> docs] :
        /\ \A i, j \in 1..Cardinality(docs) : s[i] = s[j] => i = j
        /\ \A i, j \in 1..Cardinality(docs) :
              i < j => s[i].allocation_date >= s[j].allocation_date}

\* a plausible slip: skip and limit cut the unsorted cursor, then the page is sorted
PageOf_CutFirst(sorted, skip, limit) ==
    LET n == Len(sorted)
        from == (n - skip - limit) + 1
    IN  SubSeq(sorted, IF from < 1 THEN 1 ELSE from, n - skip)

\* .skip(skip).limit(limit) of the sorted cursor
PageOf(sorted, skip, limit) ==
    SubSeq(sorted, skip + 1,
           IF skip + limit < Len(sorted) THEN skip + limit ELSE Len(sorted))

\* the parameters FastAPI accepts: skip >= 0 and 1 <= limit <= 100
PagingValid(skip, limit) == skip >= 0 /\ limit >= MinLimit /\ limit <= MaxLimit

\* GET /allocations/
get_allocations(q) ==
    LET skip == IF IsGiven(q.skip) THEN ValueOf(q.skip) ELSE DefaultSkip
        limit == IF IsGiven(q.limit) THEN ValueOf(q.limit) ELSE DefaultLimit
    IN
    /\ UNCHANGED <<allocations, vehicles, issued, now, inflight>>
    /\ IF ~PagingValid(skip, limit)
       THEN \* request validation fails before the handler runs
            resp' = HTTPException("list", q, 422, "Unprocessable Entity")
       ELSE IF ~BsonEncodable(ListDateQuery(q.start_date, q.end_date))
       THEN \* bson.errors.InvalidDocument when the cursor is iterated
            resp' = ServerError("list", q)
       ELSE \E sorted \in SortedByDateDesc(ListMatching(q)) :
               LET page == PageOf(sorted, skip, limit)
                   allocation_list == [i \in 1..Len(page) |-> WithId(page[i])]
               IN  resp' =
                     IF \A i \in 1..Len(page) :
                            AllocationResponseValid(allocation_list[i])
                     THEN Response("list", q, 200, "", allocation_list)
                     ELSE ServerError("list", q)

\* the optional date parameters of the two query routes
DateParams == {Omitted} \cup {Given(d) : d \in Days}

\* paging requests, and filter requests with default paging
ListRequests ==
    [employee_id : {Omitted} \cup {Given(e) : e \in EmployeeIdStr},
     vehicle_id : {Omitted}, status : {Omitted},
     start_date : {Omitted}, end_date : {Omitted},
     skip : {Omitted, Given(1), Given(0 - 1)},
     limit : {Omitted, Given(MinLimit), Given(MinLimit - 1), Given(MaxLimit + 1)}]
    \cup
    [employee_id : {Omitted},
     vehicle_id : {Omitted, Given(VehicleIdStr[1])},
     status : {Omitted, Given(CANCELLED)},
     start_date : DateParams, end_date : DateParams,
     skip : {Omitted}, limit : {Omitted}]

ListAllocations == \E q \in ListRequests : get_allocations(q)

\* query of get_allocation_stats: a range only when both dates are given
StatsDateQuery(start_date, end_date) ==
    IF IsGiven(start_date) /\ IsGiven(end_date)
    THEN [gte |-> Given(DateTimeValue(StartOfDay(ValueOf(start_date)))),
          lte |-> Given(DateTimeValue(EndOfDay(ValueOf(end_date))))]
    ELSE NoDateQuery

\* a plausible slip: each supplied date bounds the range on its own
StatsMatching_EachBound(start_date, end_date) ==
    {a \in allocations :
        /\ IsGiven(start_date) => a.allocation_date >= StartOfDay(ValueOf(start_date))
        /\ IsGiven(end_date) => a.allocation_date <= EndOfDay(ValueOf(end_date))}

\* the $match stage of the stats pipeline
StatsMatching(start_date, end_date) ==
    {a \in allocations : DateMatches(a, StatsDateQuery(start_date, end_date))}

\* the $group stage: one count per status present
StatsGroups(docs) ==
    [s \in {a.status : a \in docs} |-> Cardinality({a \in docs : a.status = s})]

RECURSIVE SumOver(_, _)
\* sum(stat["count"] for stat in stats)
SumOver(stats, keys) ==
    IF keys = {} THEN 0
    ELSE LET k == CHOOSE x \in keys : TRUE
         IN  stats[k] + SumOver(stats, keys \ {k})

\* a plausible slip: the groups counted, not their counts summed
TotalAllocations_Groups(stats) == Cardinality(DOMAIN stats)

\* "total_allocations": sum(stat["count"] for stat in stats)
TotalAllocations(stats) == SumOver(stats, DOMAIN stats)

\* GET /allocations/stats
get_allocation_stats(start_date, end_date) ==
    LET stats == StatsGroups(StatsMatching(start_date, end_date)) IN
    /\ resp' = Response("stats",
                   [start_date |-> start_date, end_date |-> end_date], 200, "",
                   [total_allocations |-> TotalAllocations(stats),
                    status_breakdown |-> stats])
    /\ UNCHANGED <<allocations, vehicles, issued, now, inflight>>

AllocationStats ==
    \E start_date \in DateParams, end_date \in DateParams :
        get_allocation_stats(start_date, end_date)

\* the query routes over a store filled by create and update requests, all
\* made at instant 0
NextQuery ==
    \/ CreateAllocation
    \/ UpdateStatus
    \/ ListAllocations
    \/ AllocationStats

SpecQuery == Init /\ [][NextQuery]_vars

(* ---------------------------- concurrency ------------------------------ *)

\* create_allocation suspends at each await (find_one, insert_one,
\* find_one): the requests of different clients interleave there, and each
\* database call is atomic.

\* up to the first await: the date test, then the conflict query run by
\* the database; checked_at records how many inserts had been made by then
create_allocation_check(c, allocation) ==
    /\ inflight[c].pc = "idle"
    /\ inflight' = [inflight EXCEPT ![c] =
           IF IsPastDate(allocation.allocation_date)
           THEN [pc |-> "done", req |-> allocation,
                 resp |-> HTTPException("create", allocation, 400,
                              "Cannot create allocation for past dates")]
           ELSE IF FindExisting(allocation.vehicle_id, allocation.allocation_date) # {}
           THEN [pc |-> "done", req |-> allocation,
                 resp |-> HTTPException("create", allocation, 401,
                              "Vehicle is already allocated for this date")]
           ELSE [pc |-> "checked", req |-> allocation, checked_at |-> issued]]
    /\ UNCHANGED <<allocations, vehicles, issued, now, resp>>

\* a plausible slip: the conflict query run again with the insert
create_allocation_insert_Rechecked(c) ==
    /\ inflight[c].pc = "checked"
    /\ issued < MaxAllocs
    /\ LET allocation == inflight[c].req IN
       IF FindExisting(allocation.vehicle_id, allocation.allocation_date) # {}
       THEN /\ inflight' = [inflight EXCEPT ![c] =
                   [pc |-> "done", req |-> allocation,
                    resp |-> HTTPException("create", allocation, 401,
                                 "Vehicle is already allocated for this date")]]
            /\ UNCHANGED <<allocations, issued>>
       ELSE /\ allocations' = allocations \cup {new_allocation(allocation)}
            /\ issued' = issued + 1
            /\ inflight' = [inflight EXCEPT ![c] =
                   [pc |-> "inserted", req |-> allocation,
                    checked_at |-> inflight[c].checked_at,
                    inserted_id |-> new_allocation(allocation)._id]]
    /\ UNCHANGED <<vehicles, now, resp>>

\* from the conflict query to the second await: new_allocation is built
\* and insert_one is run by the database
create_allocation_insert(c) ==
    /\ inflight[c].pc = "checked"
    /\ issued < MaxAllocs
    /\ LET allocation == inflight[c].req IN
       /\ allocations' = allocations \cup {new_allocation(allocation)}
       /\ issued' = issued + 1
       /\ inflight' = [inflight EXCEPT ![c] =
              [pc |-> "inserted", req |-> allocation,
               checked_at |-> inflight[c].checked_at,
               inserted_id |-> new_allocation(allocation)._id]]
    /\ UNCHANGED <<vehicles, now, resp>>

\* the third await and the return: find_one by inserted_id, then the
\* response under response_model=AllocationResponse
create_allocation_return(c) ==
    /\ inflight[c].pc = "inserted"
    /\ LET created_allocation ==
               CHOOSE a \in FindById(inflight[c].inserted_id) : TRUE
       IN  inflight' = [inflight EXCEPT ![c] =
               [pc |-> "done", req |-> inflight[c].req,
                checked_at |-> inflight[c].checked_at,
                resp |-> AllocationResponse("create", inflight[c].req,
                                            WithId(created_allocation))]]
    /\ UNCHANGED <<allocations, vehicles, issued, now, resp>>

ConcurrentCheck ==
    \E c \in Clients, allocation \in AllocationCreate :
        create_allocation_check(c, allocation)

ConcurrentInsert == \E c \in Clients : create_allocation_insert(c)

ConcurrentReturn == \E c \in Clients : create_allocation_return(c)

NextConcurrent ==
    \/ Tick
    \/ ConcurrentCheck
    \/ ConcurrentInsert
    \/ ConcurrentReturn

SpecConcurrent == Init /\ [][NextConcurrent]_vars

(* ------------------------------ claims --------------------------------- *)

\* this step is a request of kind op; resp' is its request and response
Requested(op) == now' = now /\ resp'.op = op

\* the stored allocations with this identifier string
Stored(id) == {a \in allocations : Str(a._id) = id}

\* a is a non-cancelled allocation of vehicle v on calendar date d
ActiveOn(a, v, d) ==
    a.vehicle_id = v /\ DateOf(a.allocation_date) = d /\ a.status # CANCELLED

\* C1: for every vehicle and every calendar date the store holds at most
\* one allocation that is not cancelled.
C1_OneActivePerVehicleAndDate ==
    \A a, b \in allocations :
        (/\ a.vehicle_id = b.vehicle_id
         /\ DateOf(a.allocation_date) = DateOf(b.allocation_date)
         /\ a.status # CANCELLED
         /\ b.status # CANCELLED) => a = b

\* C2: a create request for vehicle V on a date D that is not past answers
\* 401 and inserts nothing whenever a non-cancelled allocation of V on the
\* calendar date D is stored, whatever the times of day.
C2_ConflictOnSameCalendarDate ==
    [][(/\ Requested("create")
        /\ DateOf(resp'.req.allocation_date) >= Today
        /\ \E a \in allocations :
              ActiveOn(a, resp'.req.vehicle_id, DateOf(resp'.req.allocation_date)))
       => (resp'.code = 401 /\ allocations' = allocations)]_vars

C4_WindowByCalendarDate ==
    /\ [][\A op \in {"update", "delete"} :
            (Requested(op) /\ Stored(resp'.req.id) # {}) =>
                LET a == CHOOSE x \in Stored(resp'.req.id) : TRUE
                IN  IF DateOf(a.allocation_date) <= Today
                    THEN resp'.code = 400 /\ allocations' = allocations
                    ELSE resp'.code = 200]_vars
    /\ [][(Requested("create") /\ DateOf(resp'.req.allocation_date) = Today)
            => resp'.code # 400]_vars

\* C5 as stated: a delete of a stored allocation answers 400 exactly when
\* the clock is at or after the last instant of the allocation's day.
C5_DeleteWindowByClock ==
    [][(Requested("delete") /\ Stored(resp'.req.id) # {}) =>
            LET a == CHOOSE x \in Stored(resp'.req.id) : TRUE
            IN  (resp'.code = 400) <=>
                    (now >= EndOfDay(DateOf(a.allocation_date)))]_vars

\* C5 amended: a delete of a stored allocation answers 400 exactly when the
\* allocation's calendar date is today or earlier, which is exactly when an
\* update of it answers 400: no stored allocation is refused by update and
\* accepted by delete at the same clock.
C5_DeleteWindowIsUpdateWindow ==
    /\ [][\A op \in {"update", "delete"} :
            (Requested(op) /\ Stored(resp'.req.id) # {}) =>
                LET a == CHOOSE x \in Stored(resp'.req.id) : TRUE
                IN  (resp'.code = 400) <=> (DateOf(a.allocation_date) <= Today)]_vars
    /\ [](\A a \in allocations : UpdateWindowClosed(a) <=> DeleteWindowClosed(a))

\* C5 witness: a delete was refused for an allocation dated today while the
\* clock was still before the last instant of that day.
C5_Witness ==
    /\ resp.op = "delete"
    /\ resp.code = 400
    /\ now < EndOfDay(Today)
    /\ \E a \in Stored(resp.req.id) :
          /\ DateOf(a.allocation_date) = Today
          /\ UpdateWindowClosed(a)

\* C6: no two stored vehicles reference the same driver.
C6_DriverOnOneVehicle ==
    \A i, j \in 1..Len(vehicles) :
        Str(vehicles[i].driver_id) = Str(vehicles[j].driver_id) => i = j

\* C7: a get answers 400 for a malformed identifier, 404 for a well-formed
\* identifier no stored allocation has, and otherwise 200 with the stored
\* identifier, employee, vehicle, purpose and status.
C7_GetAllocation ==
    [][Requested("get") =>
        LET id == resp'.req.id
        IN  IF ~ObjectIdIsValid(id) THEN resp'.code = 400
            ELSE IF Stored(id) = {} THEN resp'.code = 404
            ELSE /\ resp'.code = 200
                 /\ \E a \in Stored(id) :
                       /\ resp'.body.id = id
                       /\ resp'.body.employee_id = a.employee_id
                       /\ resp'.body.vehicle_id = a.vehicle_id
                       /\ resp'.body.purpose = a.purpose
                       /\ resp'.body.status = a.status]_vars

\* C8: an update or delete for an identifier no stored allocation has,
\* malformed or deleted ones included, answers 404 and changes nothing.
C8_NotFound ==
    [][\A op \in {"update", "delete"} :
            (Requested(op) /\ Stored(resp'.req.id) = {}) =>
                (resp'.code = 404 /\ allocations' = allocations)]_vars

\* every vehicle reference of a non-cancelled allocation on date d is the
\* identifier of a stored vehicle
ReferencesExist(d) ==
    \A a \in allocations :
        ActiveOn(a, a.vehicle_id, d) =>
            \E i \in 1..Len(vehicles) : Str(vehicles[i]._id) = a.vehicle_id

\* C9: the availability report for date d lists exactly the stored
\* vehicles without a non-cancelled allocation on calendar date d.
C9_AvailableExactly ==
    [][Requested("availability") =>
        LET d == resp'.req.date
            list == resp'.body.vehicles
        IN  /\ resp'.code = 200
            /\ \A i \in 1..Len(vehicles) :
                  (\E k \in 1..Len(list) : list[k] = VehicleWithId(vehicles[i]))
                      <=> ~(\E a \in allocations :
                               ActiveOn(a, Str(vehicles[i]._id), d))
            /\ \A k \in 1..Len(list) :
                  \E i \in 1..Len(vehicles) : list[k] = VehicleWithId(vehicles[i])
            /\ \A k, l \in 1..Len(list) : list[k] = list[l] => k = l]_vars

\* C9 witness: a report that leaves out a vehicle allocated later than the
\* first instant of the day and lists a vehicle whose only allocation on
\* that day is cancelled.
C9_Witness ==
    /\ resp.op = "availability"
    /\ \E a, c \in allocations :
          /\ ActiveOn(a, a.vehicle_id, resp.req.date)
          /\ a.allocation_date # StartOfDay(resp.req.date)
          /\ \E i \in 1..Len(vehicles) : Str(vehicles[i]._id) = a.vehicle_id
          /\ \A k \in 1..Len(resp.body.vehicles) :
                resp.body.vehicles[k].id # a.vehicle_id
          /\ c.status = CANCELLED
          /\ DateOf(c.allocation_date) = resp.req.date
          /\ c.vehicle_id # a.vehicle_id
          /\ \E k \in 1..Len(resp.body.vehicles) :
                resp.body.vehicles[k].id = c.vehicle_id

\* C10: when every vehicle reference of a non-cancelled allocation on d is
\* a stored vehicle, the report has available + allocated = total, total
\* the number of stored vehicles and available the length of the list.
C10_CountsAddUp ==
    [][(Requested("availability") /\ ReferencesExist(resp'.req.date)) =>
            /\ resp'.body.available_vehicles + resp'.body.allocated_vehicles
                   = resp'.body.total_vehicles
            /\ resp'.body.total_vehicles = Len(vehicles)
            /\ resp'.body.available_vehicles = Len(resp'.body.vehicles)]_vars

\* C10 witness: a report for a date on which one stored vehicle has two
\* non-cancelled allocations and another stored vehicle is free.
C10_Witness ==
    /\ resp.op = "availability"
    /\ ReferencesExist(resp.req.date)
    /\ resp.body.allocated_vehicles = 1
    /\ resp.body.available_vehicles = 1
    /\ \E a, b \in allocations :
          /\ a # b
          /\ ActiveOn(a, a.vehicle_id, resp.req.date)
          /\ ActiveOn(b, a.vehicle_id, resp.req.date)

\* the allocations with an instant in the days start .. end, an absent
\* bound not restricting
InDays(start_date, end_date) ==
    {a \in allocations :
        /\ IsGiven(start_date) => a.allocation_date >= StartOfDay(ValueOf(start_date))
        /\ IsGiven(end_date) => a.allocation_date <= EndOfDay(ValueOf(end_date))}

\* C11: the stats report has total_allocations equal to the sum of the
\* values of status_breakdown and to the number of counted allocations,
\* and one entry per status present among them, holding their number.
C11_StatsTotals ==
    [][Requested("stats") =>
        LET counted == StatsMatching(resp'.req.start_date, resp'.req.end_date)
            breakdown == resp'.body.status_breakdown
        IN  /\ resp'.code = 200
            /\ resp'.body.total_allocations = SumOver(breakdown, DOMAIN breakdown)
            /\ resp'.body.total_allocations = Cardinality(counted)
            /\ DOMAIN breakdown = {a.status : a \in counted}
            /\ \A st \in DOMAIN breakdown :
                  breakdown[st] = Cardinality({a \in counted : a.status = st})]_vars

\* C11 witness: a report over a range that leaves one of two stored
\* allocations out and counts two allocations under one status when asked
\* without a range.
C11_Witness ==
    /\ resp.op = "stats"
    /\ Cardinality(allocations) = 2
    /\ \/ /\ IsGiven(resp.req.start_date) /\ IsGiven(resp.req.end_date)
          /\ resp.body.total_allocations = 1
       \/ /\ resp.body.total_allocations = 2
          /\ Cardinality(DOMAIN resp.body.status_breakdown) = 1
    /\ \E a, b \in allocations : a.status = ALLOCATED /\ b.status = ALLOCATED /\ a # b

\* the documents a list request is to match: the equality filters, and the
\* dates as C19 words them
ShouldMatch(q) ==
    {a \in allocations :
        /\ IsGiven(q.employee_id) => a.employee_id = ValueOf(q.employee_id)
        /\ IsGiven(q.vehicle_id) => a.vehicle_id = ValueOf(q.vehicle_id)
        /\ IsGiven(q.status) => a.status = ValueOf(q.status)
        /\ IF IsGiven(q.start_date) /\ IsGiven(q.end_date)
           THEN /\ a.allocation_date >= StartOfDay(ValueOf(q.start_date))
                /\ a.allocation_date <= StartOfDay(ValueOf(q.end_date))
           ELSE a \in InDays(q.start_date, q.end_date)}

\* list is the page skip .. skip+limit-1 of docs in non-increasing order
\* of allocation date
IsPage(list, docs, skip, limit) ==
    LET shown == {d \in docs : \E i \in 1..Len(list) : list[i] = WithId(d)}
        rest == docs \ shown
        left == Cardinality(docs) - skip
    IN  /\ \A i \in 1..Len(list) : \E d \in docs : list[i] = WithId(d)
        /\ \A i, j \in 1..Len(list) : list[i] = list[j] => i = j
        /\ \A i, j \in 1..Len(list) :
              i < j => list[i].allocation_date >= list[j].allocation_date
        /\ Len(list) = IF left <= 0 THEN 0 ELSE IF left < limit THEN left ELSE limit
        /\ Len(list) <= limit
        /\ \E before \in SUBSET rest :
              /\ Cardinality(before) =
                     IF skip < Cardinality(docs) THEN skip ELSE Cardinality(docs)
              /\ \A x \in before, y \in shown : x.allocation_date >= y.allocation_date
              /\ \A x \in rest \ before, y \in shown :
                    x.allocation_date <= y.allocation_date

\* C12 as stated: a list request answers 200 with the page
\* skip .. skip+limit-1 of the matching allocations in non-increasing
\* date order, skip 0 and limit 10 by default, a limit outside 1..100
\* clamped into it. Stated for the requests with a skip that is absent or
\* not negative and at most one date, while every stored allocation has a
\* purpose.
C12_ListPageClamped ==
    [][(/\ Requested("list")
        /\ IsGiven(resp'.req.skip) => ValueOf(resp'.req.skip) >= 0
        /\ ~(IsGiven(resp'.req.start_date) /\ IsGiven(resp'.req.end_date))
        /\ \A a \in allocations : a.purpose # None) =>
        LET q == resp'.req
            skip == IF IsGiven(q.skip) THEN ValueOf(q.skip) ELSE DefaultSkip
            asked == IF IsGiven(q.limit) THEN ValueOf(q.limit) ELSE DefaultLimit
            limit == IF asked < MinLimit THEN MinLimit
                     ELSE IF asked > MaxLimit THEN MaxLimit ELSE asked
        IN  /\ resp'.code = 200
            /\ IsPage(resp'.body, ShouldMatch(q), skip, limit)]_vars

\* C12 amended: a list request with a negative skip or a limit outside
\* 1..100 answers 422; any other answers 500 when both dates are given or
\* a matching allocation of the page has no purpose, and otherwise 200
\* with the page skip .. skip+limit-1 of the matching allocations in
\* non-increasing date order, skip 0 and limit 10 by default.
C12_ListPageValidated ==
    [][Requested("list") =>
        LET q == resp'.req
            skip == IF IsGiven(q.skip) THEN ValueOf(q.skip) ELSE DefaultSkip
            limit == IF IsGiven(q.limit) THEN ValueOf(q.limit) ELSE DefaultLimit
            both == IsGiven(q.start_date) /\ IsGiven(q.end_date)
        IN  IF skip < 0 \/ limit < MinLimit \/ limit > MaxLimit
            THEN resp'.code = 422
            ELSE IF both THEN resp'.code = 500
            ELSE /\ resp'.code \in {200, 500}
                 /\ resp'.code = 500 =>
                       \E a \in ShouldMatch(q) : a.purpose = None
                 /\ (\A a \in ShouldMatch(q) : a.purpose # None) => resp'.code = 200
                 /\ resp'.code = 200 =>
                       /\ IsPage(resp'.body, ShouldMatch(q), skip, limit)
                       /\ \A i \in 1..Len(resp'.body) :
                             resp'.body[i].purpose # None]_vars

\* C12 witness: the second page of one record, out of two stored
\* allocations with different dates, and it holds the earlier one.
C12_Witness ==
    /\ resp.op = "list"
    /\ resp.code = 200
    /\ IsGiven(resp.req.skip) /\ ValueOf(resp.req.skip) = 1
    /\ IsGiven(resp.req.limit) /\ ValueOf(resp.req.limit) = 1
    /\ Len(resp.body) = 1
    /\ \E a \in allocations :
          /\ a.allocation_date > resp.body[1].allocation_date
          /\ resp.body[1] \in {WithId(d) : d \in allocations}

\* C19: a list request filtering on dates answers 200 with exactly the
\* allocations whose instant lies between both dates when both are
\* given, at or after the start of start_date when it alone is given, at
\* or before the end of end_date when it alone is given.
C19_ListDateFilter ==
    [][(/\ Requested("list")
        /\ ~IsGiven(resp'.req.skip) /\ ~IsGiven(resp'.req.limit)
        /\ IsGiven(resp'.req.start_date) \/ IsGiven(resp'.req.end_date)) =>
            /\ resp'.code = 200
            /\ {resp'.body[i] : i \in 1..Len(resp'.body)}
                   = {WithId(a) : a \in ShouldMatch(resp'.req)}]_vars

\* C20 as stated: the stats report counts exactly the allocations whose
\* instant satisfies every supplied bound, one bound alone included.
C20_StatsEachBound ==
    [][Requested("stats") =>
        resp'.body.total_allocations =
            Cardinality(InDays(resp'.req.start_date, resp'.req.end_date))]_vars

\* C20 amended: the stats report counts the allocations within the days
\* start_date .. end_date when both are given, and every stored
\* allocation when one of them or both are absent.
C20_StatsBothOrAll ==
    [][Requested("stats") =>
        LET both == IsGiven(resp'.req.start_date) /\ IsGiven(resp'.req.end_date)
            counted == IF both
                       THEN InDays(resp'.req.start_date, resp'.req.end_date)
                       ELSE allocations
        IN  /\ resp'.body.total_allocations = Cardinality(counted)
            /\ \A st \in AllocationStatus :
                  Cardinality({a \in counted : a.status = st}) =
                      IF st \in DOMAIN resp'.body.status_breakdown
                      THEN resp'.body.status_breakdown[st] ELSE 0]_vars

\* C20 witness: a report asked with start_date alone counts an allocation
\* dated before that day.
C20_Witness ==
    /\ resp.op = "stats"
    /\ IsGiven(resp.req.start_date) /\ ~IsGiven(resp.req.end_date)
    /\ resp.body.total_allocations = Cardinality(allocations)
    /\ \E a \in allocations :
          a.allocation_date < StartOfDay(ValueOf(resp.req.start_date))

\* C13: when the store holds allocations of vehicle V on date D, all of
\* them cancelled, and D is not in the past, a create for (V, D) answers
\* 200 with an allocated record and leaves the stored records as they
\* were.
C13_CancelledDoesNotBlock ==
    [][(/\ Requested("create")
        /\ DateOf(resp'.req.allocation_date) >= Today
        /\ \E a \in allocations :
              /\ a.vehicle_id = resp'.req.vehicle_id
              /\ DateOf(a.allocation_date) = DateOf(resp'.req.allocation_date)
        /\ \A a \in allocations :
              ~ActiveOn(a, resp'.req.vehicle_id, DateOf(resp'.req.allocation_date))) =>
            /\ resp'.code = 200
            /\ resp'.body.status = ALLOCATED
            /\ allocations \subseteq allocations'
            /\ Cardinality(allocations') = Cardinality(allocations) + 1]_vars

\* C15: a create answering 200 adds exactly one record, under an
\* identifier no other record has, with the supplied employee, vehicle,
\* date and purpose, status allocated and both timestamps at the current
\* instant; the records stored before are unchanged and the answer is the
\* stored record.
C15_CreateAddsOneRecord ==
    [][(Requested("create") /\ resp'.code = 200) =>
        \E new \in allocations' :
            /\ new \notin allocations
            /\ allocations' = allocations \cup {new}
            /\ \A a \in allocations' : a._id = new._id => a = new
            /\ new.employee_id = resp'.req.employee_id
            /\ new.vehicle_id = resp'.req.vehicle_id
            /\ new.allocation_date = resp'.req.allocation_date
            /\ new.purpose = resp'.req.purpose
            /\ new.status = ALLOCATED
            /\ new.created_at = now /\ new.updated_at = now
            /\ resp'.body.id = Str(new._id)
            /\ \A f \in DOMAIN new \ {"_id"} : resp'.body[f] = new[f]
            /\ DOMAIN resp'.body = (DOMAIN new \ {"_id"}) \cup {"id"}]_vars

\* C15 witness: a create answered 200 with the second record of the
\* store, after the clock had advanced and for a later instant.
C15_Witness ==
    /\ resp.op = "create"
    /\ resp.code = 200
    /\ Cardinality(allocations) = 2
    /\ \E a \in Stored(resp.body.id) :
          /\ a.created_at = now /\ now > 0
          /\ a.allocation_date > now

\* C16: a create with no purpose, a date that is not in the past and no
\* non-cancelled allocation of the vehicle on that date answers 200 with
\* the allocated record; and no create that inserted a record answers
\* with an error.
C16_PurposeOptional ==
    /\ [][(/\ Requested("create")
           /\ resp'.req.purpose = None
           /\ DateOf(resp'.req.allocation_date) >= Today
           /\ \A a \in allocations :
                 ~ActiveOn(a, resp'.req.vehicle_id,
                           DateOf(resp'.req.allocation_date))) =>
               resp'.code = 200 /\ resp'.body.status = ALLOCATED]_vars
    /\ [][(Requested("create") /\ allocations' # allocations) =>
               resp'.code = 200]_vars

\* C17: an update answering 200 changes in its target the supplied
\* non-null fields and sets updated_at to the current instant, whether or
\* not a field was supplied; employee, vehicle, date and created_at of the
\* target, every other record and the number of records are unchanged.
C17_UpdateFrame ==
    [][(Requested("update") /\ resp'.code = 200) =>
        \E old \in Stored(resp'.req.id) : \E new \in allocations' :
            /\ allocations' = (allocations \ {old}) \cup {new}
            /\ Cardinality(allocations') = Cardinality(allocations)
            /\ new._id = old._id
            /\ new.employee_id = old.employee_id
            /\ new.vehicle_id = old.vehicle_id
            /\ new.allocation_date = old.allocation_date
            /\ new.created_at = old.created_at
            /\ new.purpose = IF resp'.req.update.purpose # None
                             THEN resp'.req.update.purpose ELSE old.purpose
            /\ new.status = IF resp'.req.update.status # None
                            THEN resp'.req.update.status ELSE old.status
            /\ new.updated_at = now]_vars

\* C17 witness: an update supplying no field answered 200 and its target
\* has updated_at at the current instant, later than created_at, while
\* another record is stored.
C17_Witness ==
    /\ resp.op = "update"
    /\ resp.code = 200
    /\ resp.req.update.purpose = None /\ resp.req.update.status = None
    /\ Cardinality(allocations) = 2
    /\ \E a \in Stored(resp.req.id) :
          a.updated_at = now /\ a.updated_at > a.created_at

\* C18: a create, update or delete answering 400 (invalid date, window
\* closed), 401 (conflict) or 404 (not found) leaves the allocations
\* store as it was.
C18_RefusedLeavesStore ==
    [][\A op \in {"create", "update", "delete"} :
          (Requested(op) /\ resp'.code \in {400, 401, 404}) =>
              allocations' = allocations]_vars

\* C18 witness: a delete refused with 400 whose target is still stored,
\* as is every record ever created.
C18_Witness ==
    /\ resp.op = "delete"
    /\ resp.code = 400
    /\ Stored(resp.req.id) # {}
    /\ issued = Cardinality(allocations)
    /\ Cardinality(allocations) = 2

\* C14: create is a check-then-act without atomicity. A request that
\* passed the conflict query inserts its record whatever has been
\* inserted since: its next step never refuses and always adds one
\* record; so two requests for the same vehicle and instant that both
\* passed the query before either insert both insert.
C14_CheckThenActNotAtomic ==
    [][\A c \in Clients :
            (inflight[c].pc = "checked" /\ inflight'[c] # inflight[c]) =>
                /\ inflight'[c].pc = "inserted"
                /\ Cardinality(allocations') = Cardinality(allocations) + 1
                /\ \E a \in allocations' \ allocations :
                      /\ a.vehicle_id = inflight[c].req.vehicle_id
                      /\ a.allocation_date = inflight[c].req.allocation_date
                      /\ a.status = ALLOCATED]_vars

\* C14 witness: two clients asked for the same vehicle and instant, both
\* ran the conflict query before any insert, both got 200, and the store
\* holds two non-cancelled allocations of that vehicle at that instant.
C14_Witness ==
    /\ \A c \in Clients :
          /\ inflight[c].pc = "done"
          /\ inflight[c].resp.code = 200
          /\ inflight[c].checked_at = 0
          /\ inflight[c].req.vehicle_id = inflight[1].req.vehicle_id
          /\ inflight[c].req.allocation_date = inflight[1].req.allocation_date
    /\ inflight[1].resp.body.id # inflight[2].resp.body.id
    /\ Cardinality({a \in allocations :
                       ActiveOn(a, inflight[1].req.vehicle_id,
                                DateOf(inflight[1].req.allocation_date))}) = 2

\* C21: with requests served one after the other, the store never holds
\* two allocations that are not cancelled with the same vehicle and the
\* same allocation instant; and an update that sets a cancelled
\* allocation back to allocated does not answer 200 while another
\* allocation of that vehicle at that instant is not cancelled.
C21_OneActivePerVehicleAndInstant ==
    /\ [](\A a, b \in allocations :
            (/\ a.vehicle_id = b.vehicle_id
             /\ a.allocation_date = b.allocation_date
             /\ a.status # CANCELLED /\ b.status # CANCELLED) => a = b)
    /\ [][(/\ Requested("update")
           /\ resp'.req.update.status = ALLOCATED
           /\ \E a \in Stored(resp'.req.id) :
                 /\ a.status = CANCELLED
                 /\ \E b \in allocations :
                       /\ b # a
                       /\ b.vehicle_id = a.vehicle_id
                       /\ b.allocation_date = a.allocation_date
                       /\ b.status # CANCELLED) =>
               resp'.code # 200 /\ allocations' = allocations]_vars

\* the edit window of a is closed: its calendar date is today or earlier
WindowClosedFor(a) == DateOf(a.allocation_date) <= Today

\* C22: the edit window never reopens. The clock never goes backwards; an
\* update or delete is refused with 400 only for a stored allocation whose
\* window is closed; an allocation whose window is closed is, after every
\* step, still stored with every field unchanged and its window still
\* closed; every update or delete of it answers 400 and changes nothing;
\* and a record created for the current day has its window closed from
\* the state in which it is first stored.
C22_WindowNeverReopens ==
    /\ [][now' >= now]_vars
    /\ [][\A op \in {"update", "delete"} :
            (Requested(op) /\ resp'.code = 400) =>
                \E a \in Stored(resp'.req.id) : WindowClosedFor(a)]_vars
    /\ [][\A a \in allocations :
            WindowClosedFor(a) =>
                /\ a \in allocations'
                /\ DateOf(a.allocation_date) <= DateOf(now')]_vars
    /\ [][\A op \in {"update", "delete"} :
            (Requested(op) /\ \E a \in Stored(resp'.req.id) : WindowClosedFor(a)) =>
                resp'.code = 400 /\ allocations' = allocations]_vars
    /\ [][(Requested("create") /\ DateOf(resp'.req.allocation_date) = Today) =>
            \A a \in allocations' \ allocations :
                DateOf(a.allocation_date) <= DateOf(now')]_vars

\* C22 witness: an update was refused with 400 on a day after the
\* allocation's own, for an allocation created on the day it is for and
\* never changed since.
C22_Witness ==
    /\ resp.op = "update"
    /\ resp.code = 400
    /\ \E a \in Stored(resp.req.id) :
          /\ DateOf(a.allocation_date) < Today
          /\ DateOf(a.created_at) = DateOf(a.allocation_date)
          /\ a.updated_at = a.created_at
          /\ a.status = ALLOCATED

====
